---- MODULE Spec2Model ----
(***************************************************************************)
(* Model of Shared/InlineNullValues.h: the null sentinel of a column value *)
(* as a function of its type descriptor (SQL_TYPE_INFO).                   *)
(*                                                                         *)
(* The three entry points are pure functions of the descriptor.  Each is   *)
(* an operator here; an action applies it to the descriptor drawn by Init  *)
(* and records the outcome: a returned value, an abort (CHECK / abort()),  *)
(* or a trap raised by a build that traps on undefined behaviour.          *)
(*                                                                         *)
(* int64_t values are kept at their width as four 16-bit limbs, least      *)
(* significant first, in two's complement.                                 *)
(***************************************************************************)
EXTENDS Integers, Sequences, FiniteSets, TLC

\* ------------------------------------------------------------------ bounds
MaxCompParam == 72
MaxNegParam == 9
MaxSize == 4
MaxLogicalSize == 4

\* ------------------------------------------------- 64-bit two's complement
LimbBits == 2 * 8
LimbBase == 2 ^ LimbBits
LimbMax == LimbBase - 1
Limbs == 1..4

Zero64 == [i \in Limbs |-> 0]

\* the int64_t whose only set bit is bit n (0 <= n <= 63)
Bit64(n) == [i \in Limbs |-> IF i - 1 = n \div LimbBits THEN 2 ^ (n % LimbBits) ELSE 0]

TestBit(x, n) == (x[(n \div LimbBits) + 1] \div (2 ^ (n % LimbBits))) % 2 = 1

Not64(x) == [i \in Limbs |-> LimbMax - x[i]]

\* x + 1 modulo 2^64
Inc64(x) ==
  LET c2 == IF x[1] = LimbMax THEN 1 ELSE 0
      c3 == IF c2 = 1 /\ x[2] = LimbMax THEN 1 ELSE 0
      c4 == IF c3 = 1 /\ x[3] = LimbMax THEN 1 ELSE 0
  IN  << (x[1] + 1) % LimbBase, (x[2] + c2) % LimbBase,
         (x[3] + c3) % LimbBase, (x[4] + c4) % LimbBase >>

\* what the negate instruction computes: -x modulo 2^64
Neg64(x) == Inc64(Not64(x))

INT64_MIN == Bit64(63)

\* conversion of a W-bit signed pattern (held in the low W bits) to int64_t
SignExtend(x, W) ==
  IF W = 64 \/ ~TestBit(x, W - 1) THEN x
  ELSE [i \in Limbs |->
          IF i - 1 < W \div LimbBits THEN x[i]
          ELSE IF i - 1 = W \div LimbBits
               THEN (x[i] % (2 ^ (W % LimbBits))) + (LimbBase - 2 ^ (W % LimbBits))
               ELSE LimbMax]

\* the W-bit pattern of all ones, zero-extended to int64_t
AllOnes(W) ==
  [i \in Limbs |->
     IF i - 1 < W \div LimbBits THEN LimbMax
     ELSE IF i - 1 = W \div LimbBits THEN 2 ^ (W % LimbBits) - 1 ELSE 0]

\* C++ remainder: truncates toward zero, the sign follows the dividend
CRem(a, b) == IF a >= 0 THEN a % b ELSE -((-a) % b)

\* ----------------------------------------------------------------- outcomes
Abort == [kind |-> "abort", val |-> <<>>]
UBTrap == [kind |-> "ub_trap", val |-> <<>>]
Ret(v) == [kind |-> "ret", val |-> v]
NoResult == [kind |-> "none", val |-> <<>>]

\* What a build makes of an undefined shift count or a signed overflow:
\*   mask  - the count is taken modulo 64 (x86-64 shl, AArch64 lsl), the
\*           negation wraps;
\*   clamp - a count outside 0..63 shifts every bit out (PTX shl.b64), the
\*           negation wraps;
\*   trap  - the build traps (-ftrapv, -fsanitize-trap=undefined).
UBOutcomes == {"mask", "clamp", "trap"}

\* ------------------------------------------------------------- descriptors
IntegerTypes == {"kTINYINT", "kSMALLINT", "kINT", "kBIGINT"}
TimeTypes == {"kTIMESTAMP", "kTIME", "kDATE", "kINTERVAL_DAY_TIME", "kINTERVAL_YEAR_MONTH"}
DecimalTypes == {"kDECIMAL", "kNUMERIC"}
FpTypes == {"kFLOAT", "kDOUBLE"}
StringTypes == {"kTEXT"}
SQLTypes ==
  {"kBOOLEAN"} \cup IntegerTypes \cup TimeTypes \cup DecimalTypes \cup FpTypes
     \cup StringTypes \cup {"kARRAY"}

EncodingTypes ==
  {"kENCODING_NONE", "kENCODING_FIXED", "kENCODING_DICT", "kENCODING_DATE_IN_DAYS",
   "kENCODING_RL"}

Descriptors ==
  [type : SQLTypes, compression : EncodingTypes,
   comp_param : (-MaxNegParam)..MaxCompParam,
   size : 1..MaxSize, logical_size : 1..MaxLogicalSize]

is_string(d) == d.type \in StringTypes
is_integer(d) == d.type \in IntegerTypes
is_time(d) == d.type \in TimeTypes
is_decimal(d) == d.type \in DecimalTypes
is_fp(d) == d.type \in FpTypes

\* ------------------------------------------------------------ leaf tables
SignedTypes == {"int8_t", "int16_t", "int32_t", "int64_t"}
BitWidth(T) ==
  CASE T \in {"int8_t", "uint8_t"} -> 8
    [] T \in {"int16_t", "uint16_t"} -> 16
    [] T = "int32_t" -> 32
    [] T = "int64_t" -> 64

\* inline_int_null_value<T>(): the minimum of a signed T, the maximum of an
\* unsigned T, returned as int64_t
inline_int_null_value(T) ==
  IF T \in SignedTypes THEN SignExtend(Bit64(BitWidth(T) - 1), BitWidth(T))
  ELSE AllOnes(BitWidth(T))

\* the two floating point constants, as IEEE numbers 1.frac * 2^exp
NULL_FLOAT == [fmt |-> "binary32", exp |-> -126, frac |-> 0]
NULL_DOUBLE == [fmt |-> "binary64", exp |-> -1022, frac |-> 0]

\* float -> double conversion: exact, every binary32 number is a binary64 one
FloatToDouble(f) == [fmt |-> "binary64", exp |-> f.exp, frac |-> f.frac]

inline_fp_null_value(T) == IF T = "float" THEN NULL_FLOAT ELSE NULL_DOUBLE

\* ---------------------------------------------------- inline_int_null_val
\* variant: a date takes the 32-bit sentinel
int_null_val_switch_date32(type) ==
  CASE type \in {"kBOOLEAN", "kTINYINT"} -> Ret(inline_int_null_value("int8_t"))
    [] type = "kSMALLINT" -> Ret(inline_int_null_value("int16_t"))
    [] type \in {"kINT", "kDATE"} -> Ret(inline_int_null_value("int32_t"))
    [] type \in {"kBIGINT", "kTIMESTAMP", "kTIME", "kINTERVAL_DAY_TIME",
                 "kINTERVAL_YEAR_MONTH", "kDECIMAL", "kNUMERIC"} ->
         Ret(inline_int_null_value("int64_t"))
    [] OTHER -> Abort

\* the switch over the (possibly rewritten) type
int_null_val_switch(type) ==
  CASE type = "kBOOLEAN" -> Ret(inline_int_null_value("int8_t"))
    [] type = "kTINYINT" -> Ret(inline_int_null_value("int8_t"))
    [] type = "kSMALLINT" -> Ret(inline_int_null_value("int16_t"))
    [] type = "kINT" -> Ret(inline_int_null_value("int32_t"))
    [] type = "kBIGINT" -> Ret(inline_int_null_value("int64_t"))
    [] type \in {"kTIMESTAMP", "kTIME", "kDATE", "kINTERVAL_DAY_TIME",
                 "kINTERVAL_YEAR_MONTH"} -> Ret(inline_int_null_value("int64_t"))
    [] type \in {"kDECIMAL", "kNUMERIC"} -> Ret(inline_int_null_value("int64_t"))
    [] OTHER -> Abort

\* variant: the logical size of a string is not checked
inline_int_null_val_no_size_check(d) ==
  IF is_string(d)
  THEN IF d.compression # "kENCODING_DICT" THEN Abort
       ELSE int_null_val_switch("kINT")
  ELSE IF d.compression # "kENCODING_NONE" THEN Abort
       ELSE int_null_val_switch(d.type)

\* variant: the width of a string follows its storage size
inline_int_null_val_by_size(d) ==
  IF is_string(d)
  THEN IF d.compression # "kENCODING_DICT" THEN Abort
       ELSE IF d.logical_size # 4 THEN Abort
       ELSE CASE d.size = 1 -> Ret(inline_int_null_value("uint8_t"))
              [] d.size = 2 -> Ret(inline_int_null_value("uint16_t"))
              [] OTHER -> int_null_val_switch("kINT")
  ELSE IF d.compression # "kENCODING_NONE" THEN Abort
       ELSE int_null_val_switch(d.type)

inline_int_null_val(d) ==
  IF is_string(d)
  THEN IF d.compression # "kENCODING_DICT" THEN Abort
       ELSE IF d.logical_size # 4 THEN Abort
       ELSE int_null_val_switch("kINT")
  ELSE IF d.compression # "kENCODING_NONE" THEN Abort
       ELSE int_null_val_switch(d.type)

\* ----------------------------------------- inline_fixed_encoding_null_val
\* variant: only the parameter 32 selects the 32-bit sentinel
date_in_days_null_val_no_zero(d) ==
  CASE d.comp_param = 32 -> Ret(inline_int_null_value("int32_t"))
    [] d.comp_param = 16 -> Ret(inline_int_null_value("int16_t"))
    [] OTHER -> Abort

date_in_days_null_val(d) ==
  CASE d.comp_param \in {0, 32} -> Ret(inline_int_null_value("int32_t"))
    [] d.comp_param = 16 -> Ret(inline_int_null_value("int16_t"))
    [] OTHER -> Abort

\* variant: a 4-byte dictionary code takes the unsigned maximum
dict_null_val_unsigned4(d) ==
  IF ~is_string(d) THEN Abort
  ELSE CASE d.size = 1 -> Ret(inline_int_null_value("uint8_t"))
         [] d.size = 2 -> Ret(inline_int_null_value("uint16_t"))
         [] d.size = 4 -> Ret(AllOnes(32))
         [] OTHER -> Abort

\* variant: the string check is missing
dict_null_val_no_string_check(d) ==
  CASE d.size = 1 -> Ret(inline_int_null_value("uint8_t"))
    [] d.size = 2 -> Ret(inline_int_null_value("uint16_t"))
    [] d.size = 4 -> Ret(inline_int_null_value("int32_t"))
    [] OTHER -> Abort

dict_null_val(d) ==
  IF ~is_string(d) THEN Abort
  ELSE CASE d.size = 1 -> Ret(inline_int_null_value("uint8_t"))
         [] d.size = 2 -> Ret(inline_int_null_value("uint16_t"))
         [] d.size = 4 -> Ret(inline_int_null_value("int32_t"))
         [] OTHER -> Abort

\* 1L << n with long 64 bits wide.  A count in 0..62 is defined; 63 gives
\* LONG_MIN (the value 2^63 converted to long); any other count is undefined.
ShiftLeftOne(n, ub) ==
  IF n \in 0..63 THEN Ret(Bit64(n))
  ELSE CASE ub = "mask" -> Ret(Bit64(n % 64))
         [] ub = "clamp" -> Ret(Zero64)
         [] OTHER -> UBTrap

\* -x on long: undefined when x = LONG_MIN
Negate(x, ub) ==
  IF x # INT64_MIN THEN Ret(Neg64(x))
  ELSE IF ub = "trap" THEN UBTrap ELSE Ret(Neg64(x))

\* return -(1L << (ti.get_comp_param() - 1));
fixed_null_val_expr(d, ub) ==
  LET s == ShiftLeftOne(d.comp_param - 1, ub)
  IN  IF s.kind # "ret" THEN s ELSE Negate(s.val, ub)

fixed_null_val(d, ub) ==
  IF d.compression # "kENCODING_FIXED" THEN Abort
  ELSE IF ~(is_integer(d) \/ is_time(d) \/ is_decimal(d)) THEN Abort
  ELSE IF CRem(d.comp_param, 8) # 0 THEN Abort
  ELSE fixed_null_val_expr(d, ub)

inline_fixed_encoding_null_val(d, ub) ==
  IF d.compression = "kENCODING_NONE" THEN inline_int_null_val(d)
  ELSE IF d.compression = "kENCODING_DATE_IN_DAYS" THEN date_in_days_null_val(d)
  ELSE IF d.compression = "kENCODING_DICT" THEN dict_null_val(d)
  ELSE fixed_null_val(d, ub)

\* ----------------------------------------------------- inline_fp_null_val
\* variant: both precisions return the double constant
inline_fp_null_val_double_only(d) ==
  IF ~is_fp(d) THEN Abort ELSE Ret(inline_fp_null_value("double"))

inline_fp_null_val(d) ==
  IF ~is_fp(d) THEN Abort
  ELSE CASE d.type = "kFLOAT" -> Ret(FloatToDouble(inline_fp_null_value("float")))
         [] d.type = "kDOUBLE" -> Ret(inline_fp_null_value("double"))
         [] OTHER -> Abort

\* ------------------------------------------------------------ state machine
VARIABLES ti, op, result
vars == <<ti, op, result>>

Init ==
  /\ ti \in Descriptors
  /\ op = "none"
  /\ result = NoResult

CallIntNullVal ==
  /\ op' = "inline_int_null_val"
  /\ result' = inline_int_null_val(ti)
  /\ UNCHANGED ti

CallFixedEncodingNullVal ==
  \E ub \in UBOutcomes :
    /\ op' = "inline_fixed_encoding_null_val"
    /\ result' = inline_fixed_encoding_null_val(ti, ub)
    /\ UNCHANGED ti

CallFpNullVal ==
  /\ op' = "inline_fp_null_val"
  /\ result' = inline_fp_null_val(ti)
  /\ UNCHANGED ti

Next == CallIntNullVal \/ CallFixedEncodingNullVal \/ CallFpNullVal

Spec == Init /\ [][Next]_vars

TypeOK ==
  /\ ti \in Descriptors
  /\ op \in {"none", "inline_int_null_val", "inline_fixed_encoding_null_val",
             "inline_fp_null_val"}
  /\ result.kind \in {"none", "abort", "ub_trap", "ret"}
\* =================================================================== claims
\* expected values, written from their decimal or power-of-two form
I64(n) ==
  IF n >= 0 THEN << n % LimbBase, n \div LimbBase, 0, 0 >>
  ELSE LET m == -(n + 1)
       IN  << LimbMax - (m % LimbBase), LimbMax - (m \div LimbBase), LimbMax, LimbMax >>

\* -2^k as int64_t, 0 <= k <= 63
NegPow2(k) ==
  [i \in Limbs |->
     IF i - 1 < k \div LimbBits THEN 0
     ELSE IF i - 1 = k \div LimbBits THEN LimbBase - 2 ^ (k % LimbBits)
     ELSE LimbMax]

MinInt32 == I64(-2147483647 - 1)

IsLogical == op = "inline_int_null_val"
IsEncoded == op = "inline_fixed_encoding_null_val"
IsFloating == op = "inline_fp_null_val"

KnownCompressions ==
  {"kENCODING_NONE", "kENCODING_DATE_IN_DAYS", "kENCODING_DICT", "kENCODING_FIXED"}

LogicalIntTypes ==
  {"kBOOLEAN", "kTINYINT", "kSMALLINT", "kINT", "kBIGINT", "kTIMESTAMP", "kTIME",
   "kDATE", "kINTERVAL_DAY_TIME", "kINTERVAL_YEAR_MONTH", "kDECIMAL", "kNUMERIC"}

\* the sentinel of section 4.3 for an uncompressed logical type
LogicalSentinel(type) ==
  CASE type \in {"kBOOLEAN", "kTINYINT"} -> NegPow2(7)
    [] type = "kSMALLINT" -> NegPow2(15)
    [] type = "kINT" -> NegPow2(31)
    [] OTHER -> NegPow2(63)

\* C1: the encoded null value of a dictionary-encoded string is 255 for
\* storage size 1, 65535 for storage size 2 and the signed int32 minimum
\* -2147483648, not 2^32-1, for storage size 4.
C1_DictionarySentinel ==
  (IsEncoded /\ is_string(ti) /\ ti.compression = "kENCODING_DICT") =>
     /\ ti.size = 1 => result = Ret(I64(255))
     /\ ti.size = 2 => result = Ret(I64(65535))
     /\ ti.size = 4 => /\ result = Ret(MinInt32)
                       /\ result # Ret(<<LimbMax, LimbMax, 0, 0>>)

C1_Witness ==
  /\ IsEncoded /\ is_string(ti) /\ ti.compression = "kENCODING_DICT"
  /\ ti.size = 4 /\ result = Ret(MinInt32)

C3_FixedBadParamAborts ==
  (/\ IsEncoded /\ ti.compression = "kENCODING_FIXED"
   /\ (CRem(ti.comp_param, 8) # 0 \/ ti.comp_param <= 0)) =>
     result = Abort

\* C4: under date-in-days compression the encoded null value is -2147483648
\* for parameter 0 and for parameter 32, -32768 for parameter 16, and an
\* abort for every other parameter.
C4_DateInDaysSentinel ==
  (IsEncoded /\ ti.compression = "kENCODING_DATE_IN_DAYS") =>
     result = CASE ti.comp_param \in {0, 32} -> Ret(MinInt32)
                [] ti.comp_param = 16 -> Ret(I64(-32768))
                [] OTHER -> Abort

C4_Witness ==
  /\ IsEncoded /\ ti.compression = "kENCODING_DATE_IN_DAYS"
  /\ ti.comp_param = 0 /\ result = Ret(MinInt32)

\* C5: with compression none, the logical null value and the encoded null
\* value are -2^7 for boolean and tinyint, -2^15 for smallint, -2^31 for int
\* and -2^63 for bigint, the temporal types and the decimal types, whatever
\* the storage size, logical size and compression parameter.
C5_UncompressedSentinel ==
  (/\ IsLogical \/ IsEncoded
   /\ ti.compression = "kENCODING_NONE"
   /\ ti.type \in LogicalIntTypes) =>
     /\ result = Ret(LogicalSentinel(ti.type))
     /\ ti.type = "kINT" => result = Ret(MinInt32)

C5_Witness ==
  /\ IsEncoded /\ ti.compression = "kENCODING_NONE" /\ ti.type = "kDATE"
  /\ ti.size = 4 /\ ti.comp_param = 16 /\ result = Ret(NegPow2(63))

\* the descriptors section 4 supports, per operation, and their sentinels
SpecSupported(o, d) ==
  CASE o = "inline_int_null_val" ->
         \/ ~is_string(d) /\ d.compression = "kENCODING_NONE" /\ d.type \in LogicalIntTypes
         \/ is_string(d) /\ d.compression = "kENCODING_DICT" /\ d.logical_size = 4
    [] o = "inline_fp_null_val" -> is_fp(d)
    [] o = "inline_fixed_encoding_null_val" ->
         CASE d.compression = "kENCODING_NONE" ->
                ~is_string(d) /\ d.type \in LogicalIntTypes
           [] d.compression = "kENCODING_DATE_IN_DAYS" -> d.comp_param \in {0, 16, 32}
           [] d.compression = "kENCODING_DICT" -> is_string(d) /\ d.size \in {1, 2, 4}
           [] d.compression = "kENCODING_FIXED" ->
                /\ is_integer(d) \/ is_time(d) \/ is_decimal(d)
                /\ d.comp_param \in {8, 16, 24, 32, 40, 48, 56, 64}
           [] OTHER -> FALSE
    [] OTHER -> FALSE

SpecSentinel(o, d) ==
  CASE o = "inline_int_null_val" ->
         IF is_string(d) THEN NegPow2(31) ELSE LogicalSentinel(d.type)
    [] o = "inline_fp_null_val" ->
         IF d.type = "kFLOAT" THEN FloatToDouble(NULL_FLOAT) ELSE NULL_DOUBLE
    [] o = "inline_fixed_encoding_null_val" ->
         CASE d.compression = "kENCODING_NONE" -> LogicalSentinel(d.type)
           [] d.compression = "kENCODING_DATE_IN_DAYS" ->
                IF d.comp_param = 16 THEN NegPow2(15) ELSE NegPow2(31)
           [] d.compression = "kENCODING_DICT" ->
                CASE d.size = 1 -> I64(255) [] d.size = 2 -> I64(65535)
                  [] OTHER -> NegPow2(31)
           [] OTHER -> NegPow2(d.comp_param - 1)

\* C6: every operation, on every descriptor, either returns the sentinel
\* the specification defines for that descriptor or aborts; no descriptor
\* outside the supported combinations makes an operation return a value.
C6_SentinelOrAbort ==
  (op # "none") =>
     \/ result = Abort
     \/ SpecSupported(op, ti) /\ result = Ret(SpecSentinel(op, ti))

\* C7: the encoded null value aborts on dictionary compression of a
\* non-string, on fixed-bitwidth compression of a type that is neither
\* integer, temporal nor decimal, and on any compression outside the four
\* known ones.
C7_MismatchAborts ==
  (/\ IsEncoded
   /\ \/ ti.compression = "kENCODING_DICT" /\ ~is_string(ti)
      \/ /\ ti.compression = "kENCODING_FIXED"
         /\ ~(is_integer(ti) \/ is_time(ti) \/ is_decimal(ti))
      \/ ti.compression \notin KnownCompressions) =>
     result = Abort

C7_Witness ==
  /\ IsEncoded /\ ti.compression = "kENCODING_DICT" /\ ti.type = "kINT"
  /\ ti.size = 4 /\ result = Abort

LogicalAbortCase(d) ==
  \/ ~is_string(d) /\ d.compression # "kENCODING_NONE"
  \/ is_string(d) /\ (d.compression # "kENCODING_DICT" \/ d.logical_size # 4)
  \/ d.type \notin (LogicalIntTypes \cup StringTypes)

\* C8: the logical null value aborts exactly in the listed cases (a
\* non-string with compression other than none; a string that is not
\* dictionary-encoded or whose logical size is not 4; a logical type outside
\* the integer-family list, floats included); otherwise it returns a
\* sentinel, -2^31 for a dictionary-encoded string of logical size 4.
C8_LogicalAbortsExactly ==
  IsLogical =>
     /\ (result = Abort) <=> LogicalAbortCase(ti)
     /\ ~LogicalAbortCase(ti) => result.kind = "ret"
     /\ (is_string(ti) /\ ti.compression = "kENCODING_DICT" /\ ti.logical_size = 4)
           => result = Ret(MinInt32)

C8_Witness ==
  /\ IsLogical /\ is_string(ti) /\ ti.compression = "kENCODING_DICT"
  /\ ti.logical_size = 4 /\ ti.size = 1 /\ result = Ret(MinInt32)

\* C9: the floating null value is the float32 constant for every float32
\* descriptor and the float64 constant for every float64 descriptor,
\* whatever the compression, parameter, storage size and logical size; it
\* aborts for every descriptor that is not floating point.
C9_FloatingSentinel ==
  IsFloating =>
     CASE ti.type = "kFLOAT" ->
            /\ result.kind = "ret"
            /\ result.val.exp = NULL_FLOAT.exp /\ result.val.frac = NULL_FLOAT.frac
       [] ti.type = "kDOUBLE" -> result = Ret(NULL_DOUBLE)
       [] OTHER -> result = Abort

C9_Witness ==
  /\ IsFloating /\ ti.type = "kFLOAT" /\ ti.compression = "kENCODING_FIXED"
  /\ result.kind = "ret"

DictString4(d) ==
  is_string(d) /\ d.compression = "kENCODING_DICT" /\ d.logical_size = 4

\* C10: on a dictionary-encoded string of logical size 4, the logical null
\* value is -2^31 whatever the storage size; the encoded null value called
\* next on the same descriptor equals it exactly when the storage size is
\* 4, is 255 or 65535 for storage size 1 or 2, and aborts otherwise.
C10_LogicalVersusEncoded ==
  [][(IsLogical /\ DictString4(ti) /\ op' = "inline_fixed_encoding_null_val") =>
       /\ result = Ret(NegPow2(31))
       /\ (result' = result) <=> (ti.size = 4)
       /\ ti.size = 1 => result' = Ret(I64(255))
       /\ ti.size = 2 => result' = Ret(I64(65535))
       /\ ti.size \notin {1, 2, 4} => result' = Abort]_vars

C10_Witness ==
  /\ IsEncoded /\ DictString4(ti) /\ ti.size = 3 /\ result = Abort
====
